---- MODULE Spec2Model ----
(***************************************************************************)
(* jbbly: the daily phrase-guessing game.  One module models both          *)
(* variants of the App component:                                          *)
(*   "cloud"   - src/src/App.jsx (skip with a deferred transition, scores  *)
(*               inserted into the supabase leaderboard table);            *)
(*   "offline" - src/unnamed/part_000 (give up, in-memory leaderboard).    *)
(*                                                                         *)
(* A state is the component's React state (one variable per useState       *)
(* cell), the timers and the interval it has scheduled, the wall clock     *)
(* and the rows handed to the leaderboard store.  Every event (a DOM       *)
(* event handler, a timer callback, an interval callback) runs to          *)
(* completion together with the re-render and the effect it causes.  A     *)
(* handler invoked from the UI reads the state of the current render; a    *)
(* setTimeout callback reads the state captured by the render in which it  *)
(* was scheduled (its closure).                                            *)
(*                                                                         *)
(* Of the leaderboard store the model keeps the rows handed to insert      *)
(* (storeInserts), the table (store) and the requests of saveScore still   *)
(* awaited (inflight).  Spec and FairSpec are the sessions whose requests  *)
(* are not answered; SpecStore adds the store's replies to saveScore for   *)
(* sessions that finish by a correct guess; SpecView adds the replies to   *)
(* fetchLeaderboard, the notifications of the change subscription and a    *)
(* row inserted by another player; SpecSampler is the first render alone,  *)
(* on larger pools.                                                        *)
(*                                                                         *)
(* Strings are sequences of one-character strings.  Times are integers in  *)
(* milliseconds; a value in seconds is the exact ratio <<num, den>>.       *)
(* JavaScript null is modelled as 0 for timestamps (null is falsy and      *)
(* coerces to 0 in arithmetic, as 0 does) and as NullStr for strings.      *)
(***************************************************************************)
EXTENDS Integers, Sequences, FiniteSets, TLC

VARIABLES
    variant,         \* "cloud" or "offline": which App component runs
    pool,            \* the phrase pool handed to getDailyPhrases
    dailyPhrases,    \* useState(getDailyPhrases(pool))
    currentIndex,    \* useState(0)
    guess,           \* useState("")
    startTime,       \* useState(null)
    endTime,         \* useState(null)
    finished,        \* useState(false)
    wrongGuess,      \* useState(false)
    leaderboard,     \* useState([]) / useState([Alice, Bob])
    name,            \* useState("")
    gameStarted,     \* useState(false)
    hintUsed,        \* useState(false)
    giveUp,          \* useState(false)  (offline variant only)
    now,             \* useState(Date.now())
    revealedAnswer,  \* useState(null)
    penaltyTime,     \* useState(0)      (cloud variant only)
    skippedIndexes,  \* useState([])     (cloud variant only)
    clock,           \* Date.now()
    timers,          \* pending setTimeout callbacks, in creation order
    interval,        \* TRUE while the 50 ms setInterval is scheduled
    torn,            \* TRUE once the component has been unmounted
    storeInserts,    \* rows handed to supabase.from("leaderboard").insert
    store,           \* the rows of the leaderboard table, in insertion order
    inflight,        \* requests awaiting their reply, notifications sent
    console,         \* number of console.error calls
    ev               \* the event handled last

vars == <<variant, pool, dailyPhrases, currentIndex, guess, startTime, endTime,
          finished, wrongGuess, leaderboard, name, gameStarted, hintUsed,
          giveUp, now, revealedAnswer, penaltyTime, skippedIndexes, clock,
          timers, interval, torn, storeInserts, store, inflight, console, ev>>

\* The React state of the component (what a teardown discards).
session == <<currentIndex, guess, startTime, endTime, finished, wrongGuess,
             leaderboard, name, gameStarted, hintUsed, giveUp, now,
             revealedAnswer, penaltyTime, skippedIndexes>>

----------------------------------------------------------------------------
(* Program constants *)

SkipPenalty == 10000
HintPenalty == 5000
SkipDelay == 2000
WrongGuessDelay == 500
MillisPerSecond == 1000
DailyCountCloud == 5
DailyCountOffline == 3
TopN == 10
TickPeriod == 50

(* Bounds of the model *)

\* number of clock steps after the component is mounted
MaxInstants == 2
\* number of setTimeout callbacks pending at once
MaxTimers == 2
\* largest phrase pool handed to the day sampler
MaxPool == 6
\* number of rows other players insert during the session
MaxOtherInserts == 1

\* The clock advances in steps of half the skip delay, a multiple of the
\* tick period.
Quantum == SkipDelay \div 2
MountTime == Quantum
MaxClock == MountTime + MaxInstants * Quantum

----------------------------------------------------------------------------
(* Strings *)

NullStr == <<"null">>

IsSpace(c) == c = " "

LowerChar(c) ==
    IF c = "A" THEN "a" ELSE IF c = "B" THEN "b" ELSE c

\* String.prototype.toLowerCase
ToLowerCase(s) == [i \in 1..Len(s) |-> LowerChar(s[i])]

RECURSIVE TrimStart(_)
TrimStart(s) ==
    IF s = <<>> THEN <<>>
    ELSE IF IsSpace(Head(s)) THEN TrimStart(Tail(s)) ELSE s

RECURSIVE TrimEnd(_)
TrimEnd(s) ==
    IF s = <<>> THEN <<>>
    ELSE IF IsSpace(s[Len(s)]) THEN TrimEnd(SubSeq(s, 1, Len(s) - 1)) ELSE s

\* String.prototype.trim
Trim(s) == TrimEnd(TrimStart(s))

----------------------------------------------------------------------------
(* Seconds as exact ratios *)

\* ms / 1000
Seconds(ms) == <<ms, MillisPerSecond>>

\* a.time - b.time < 0
TimeLess(a, b) == a[1] * b[2] < b[1] * a[2]

----------------------------------------------------------------------------
(* Inputs *)

Phrase(answer) == [answer |-> answer]

PhraseA == Phrase(<<"a">>)
PhraseAb == Phrase(<<"A", "b">>)
PhraseBsp == Phrase(<<"b", " ">>)

\* phrasePool.json is not part of the sources: the cloud pool is an input.
CloudPoolInputs ==
    { <<>>, <<PhraseAb>>, <<PhraseAb, PhraseBsp>>,
      <<PhraseA, PhraseAb, PhraseBsp>> }

\* The pool of the offline variant: three phrases with distinct answers,
\* none with surrounding whitespace.
defaultPhrasePool == <<PhraseAb, PhraseA, Phrase(<<"b">>)>>

OfflinePoolInputs == { <<>>, defaultPhrasePool }

\* what getFullYear(), getMonth() and getDate() return for today
DateInputs ==
    { [year |-> 2025, month |-> 0, date |-> 1],
      [year |-> 2025, month |-> 11, date |-> 31] }

GuessInputs == { <<"a">>, <<" ", "A", "B", " ">>, <<"b">> }

NameInputs == { <<>>, <<" ">>, <<" ", "a">> }

----------------------------------------------------------------------------
(* Deterministic Day Sampler *)

Take(s, n) == SubSeq(s, 1, IF Len(s) < n THEN Len(s) ELSE n)

Shuffles(s) ==
    { [i \in 1..Len(s) |-> s[f[i]]] :
        f \in { g \in [1..Len(s) -> 1..Len(s)] :
                  \A i, j \in 1..Len(s) : g[i] = g[j] => i = j } }

getDailyPhrasesCloud_NoSlice(p) ==
    IF Len(p) = 0 THEN { <<>> } ELSE Shuffles(p)

\* src/src/App.jsx getDailyPhrases: the results the build can produce.  The
\* comparator () => rng() - 0.5 is not a consistent ordering, so the order
\* Array.prototype.sort leaves is implementation-defined: any permutation
\* of the copy.  The first DailyCountCloud elements are kept.
getDailyPhrasesCloud(p) ==
    IF Len(p) = 0 THEN { <<>> }
    ELSE { Take(shuffled, DailyCountCloud) : shuffled \in Shuffles(p) }

\* src/unnamed/part_000 getDailyPhrases
getDailyPhrasesOffline(p, today) ==
    IF Len(p) = 0 THEN <<>>
    ELSE LET seed == today.year * 1000 + today.month * 100 + today.date
         IN  [k \in 1..DailyCountOffline |-> p[((seed + (k - 1)) % Len(p)) + 1]]

\* dailyPhrases[i] in a boolean context
HasPhrase(dp, i) == i >= 0 /\ i < Len(dp)

\* dailyPhrases[i].answer
AnswerAt(dp, i) == dp[i + 1].answer

----------------------------------------------------------------------------
(* Initial state: the first render of App *)

\* fetchLeaderboard(): select("*").order("time", ...).limit(10); a request
\* that carries no row of its own
NoRow == [name |-> <<>>, time |-> Seconds(0)]

FetchReq == [kind |-> "fetch", row |-> NoRow, served |-> FALSE, data |-> <<>>]

\* the leaderboard effect of the first render calls fetchLeaderboard()
InitialRequests(v) == IF v = "cloud" THEN <<FetchReq>> ELSE <<>>

InitialLeaderboard(v) ==
    IF v = "cloud" THEN <<>>
    ELSE << [name |-> <<"Alice">>, time |-> <<421, 10>>],
            [name |-> <<"Bob">>, time |-> <<554, 10>>] >>

Init ==
    /\ variant \in {"cloud", "offline"}
    /\ \/ /\ variant = "cloud"
          /\ pool \in CloudPoolInputs
          /\ dailyPhrases \in getDailyPhrasesCloud(pool)
       \/ /\ variant = "offline"
          /\ pool \in OfflinePoolInputs
          /\ \E today \in DateInputs :
                dailyPhrases = getDailyPhrasesOffline(pool, today)
    /\ currentIndex = 0
    /\ guess = <<>>
    /\ startTime = 0
    /\ endTime = 0
    /\ finished = FALSE
    /\ wrongGuess = FALSE
    /\ leaderboard = InitialLeaderboard(variant)
    /\ name = <<>>
    /\ gameStarted = FALSE
    /\ hintUsed = FALSE
    /\ giveUp = FALSE
    /\ now = MountTime
    /\ revealedAnswer = NullStr
    /\ penaltyTime = 0
    /\ skippedIndexes = <<>>
    /\ clock = MountTime
    /\ timers = <<>>
    /\ interval = FALSE
    /\ torn = FALSE
    /\ storeInserts = <<>>
    /\ store = <<>>
    /\ inflight = InitialRequests(variant)
    /\ console = 0
    /\ ev = "mount"

----------------------------------------------------------------------------
(* The tick/startTime effect, run after every render whose startTime,      *)
(* gameStarted or finished changed                                         *)

\* if (gameStarted && !startTime) setStartTime(Date.now())
EffectStartTime(gs, st, t) == IF gs /\ st = 0 THEN t ELSE st

EffectInterval_NoFinished(gs, fin) == gs

\* The cleanup clears the interval of the previous run; a new one is set
\* unless (!gameStarted || finished).
EffectInterval(gs, fin) == gs /\ ~fin

\* The screen with the guess input and the Submit/Hint/Skip buttons is
\* rendered: gameStarted and not finished, component mounted.
GameScreen == ~torn /\ gameStarted /\ ~finished

\* The screen with the name input and the Start button is rendered.
NameScreen == ~torn /\ ~gameStarted

----------------------------------------------------------------------------
(* Name screen *)

NameOk_NoTrim(n) == n # <<>>

\* disabled={!name.trim()} negated; also the test of handleNameKeyDown
NameOk(n) == Trim(n) # <<>>

\* name || "You"
NameOrYou(n) == IF n = <<>> THEN <<"You">> ELSE n

\* onChange of the name input
SetName(n) ==
    /\ ev' = "setName"
    /\ NameScreen
    /\ name' = n
    /\ UNCHANGED <<variant, pool, dailyPhrases, currentIndex, guess, startTime,
                   endTime, finished, wrongGuess, leaderboard, gameStarted,
                   hintUsed, giveUp, now, revealedAnswer, penaltyTime,
                   skippedIndexes, clock, timers, interval, torn, storeInserts,
                   store, inflight, console>>

\* setGameStarted(true), the re-render and the effect it triggers
StartGame ==
    /\ gameStarted' = TRUE
    /\ startTime' = EffectStartTime(TRUE, startTime, clock)
    /\ interval' = EffectInterval(TRUE, finished)

\* A click on the Start Game button; a disabled button delivers no click.
StartClick ==
    /\ ev' = "startClick"
    /\ NameScreen
    /\ IF NameOk(name) THEN StartGame
       ELSE UNCHANGED <<gameStarted, startTime, interval>>
    /\ UNCHANGED <<variant, pool, dailyPhrases, currentIndex, guess, endTime,
                   finished, wrongGuess, leaderboard, name, hintUsed, giveUp,
                   now, revealedAnswer, penaltyTime, skippedIndexes, clock,
                   timers, torn, storeInserts, store, inflight, console>>

\* handleNameKeyDown with e.key === "Enter"
NameEnter ==
    /\ ev' = "nameEnter"
    /\ NameScreen
    /\ IF NameOk(name) THEN StartGame
       ELSE UNCHANGED <<gameStarted, startTime, interval>>
    /\ UNCHANGED <<variant, pool, dailyPhrases, currentIndex, guess, endTime,
                   finished, wrongGuess, leaderboard, name, hintUsed, giveUp,
                   now, revealedAnswer, penaltyTime, skippedIndexes, clock,
                   timers, torn, storeInserts, store, inflight, console>>

----------------------------------------------------------------------------
(* Game screen: helpers *)

\* guess.trim().toLowerCase() === currentPhrase.answer.toLowerCase()
Matches(g, answer) == ToLowerCase(Trim(g)) = ToLowerCase(answer)

\* currentIndex === dailyPhrases.length - 1
IsLast(dp, i) == i = Len(dp) - 1

\* const penalty = hintUsed ? 5000 : 0
HintPenaltyOf(hu) == IF hu THEN HintPenalty ELSE 0

\* (finish - startTime + penaltyTime + penalty) / 1000
TotalTimeCloud(finish, st, pt, hu) ==
    Seconds(finish - st + pt + HintPenaltyOf(hu))

\* (finish - startTime + penalty) / 1000
TotalTimeOffline(finish, st, hu) == Seconds(finish - st + HintPenaltyOf(hu))

\* The state a callback created by the current render reads.
Closure ==
    [ci |-> currentIndex, pt |-> penaltyTime, hu |-> hintUsed,
     st |-> startTime, nm |-> name]

\* setTimeout is modelled up to MaxTimers pending callbacks, each due
\* within the modelled time.
CanSchedule(delay) == Len(timers) < MaxTimers /\ clock + delay <= MaxClock

RemoveAt(s, i) == SubSeq(s, 1, i - 1) \o SubSeq(s, i + 1, Len(s))

\* Array.prototype.sort((a, b) => a.time - b.time): a stable sort
RECURSIVE InsertByTime(_, _)
InsertByTime(sorted, e) ==
    IF sorted = <<>> THEN <<e>>
    ELSE IF TimeLess(e.time, Head(sorted).time) THEN <<e>> \o sorted
    ELSE <<Head(sorted)>> \o InsertByTime(Tail(sorted), e)

RECURSIVE SortByTime(_)
SortByTime(s) ==
    IF s = <<>> THEN <<>>
    ELSE InsertByTime(SortByTime(SubSeq(s, 1, Len(s) - 1)), s[Len(s)])

----------------------------------------------------------------------------
(* Requests of saveScore to the leaderboard table.  A select is answered   *)
(* with the rows the table held when the store served it.                  *)

\* supabase.from("leaderboard").insert([{ name, time }])
InsertReq(row) ==
    [kind |-> "insert", row |-> row, served |-> FALSE, data |-> <<>>]

\* supabase.from("leaderboard").select("*").order("time", ...).limit(10),
\* issued by saveScore(row.name, row.time)
SelectReq(row) ==
    [kind |-> "select", row |-> row, served |-> FALSE, data |-> <<>>]

----------------------------------------------------------------------------
(* The transitions of handleSubmit and of the deferred skip callback.  c   *)
(* is the closure of the render that created the callback.  The state      *)
(* setters of an unmounted component do nothing.                           *)

\* cloud: setEndTime(finish); setFinished(true); saveScore(name || "You",
\* totalTime); the re-render's effect cleanup clears the interval
FinishCloud(c) ==
    /\ IF torn THEN UNCHANGED <<endTime, finished, interval>>
       ELSE /\ endTime' = clock
            /\ finished' = TRUE
            /\ interval' = EffectInterval(gameStarted, TRUE)
    /\ LET row == [name |-> NameOrYou(c.nm),
                   time |-> TotalTimeCloud(clock, c.st, c.pt, c.hu)]
       IN  /\ storeInserts' = Append(storeInserts, row)
           /\ inflight' = Append(inflight, InsertReq(row))
    /\ UNCHANGED <<currentIndex, guess, revealedAnswer, leaderboard, store,
                   console>>

FinishOffline_NoSort(c) ==
    /\ endTime' = clock
    /\ finished' = TRUE
    /\ interval' = EffectInterval(gameStarted, TRUE)
    /\ leaderboard' =
          IF giveUp THEN leaderboard
          ELSE Take(Append(leaderboard,
                       [name |-> NameOrYou(c.nm),
                        time |-> TotalTimeOffline(clock, c.st, c.hu)]),
                    TopN)
    /\ UNCHANGED <<currentIndex, guess, revealedAnswer, storeInserts,
                   store, inflight, console>>

\* offline: setEndTime(finish); setFinished(true); if (!giveUp)
\* setLeaderboard([...leaderboard, entry].sort(...).slice(0, 10))
FinishOffline(c) ==
    /\ endTime' = clock
    /\ finished' = TRUE
    /\ interval' = EffectInterval(gameStarted, TRUE)
    /\ leaderboard' =
          IF giveUp THEN leaderboard
          ELSE Take(SortByTime(Append(leaderboard,
                       [name |-> NameOrYou(c.nm),
                        time |-> TotalTimeOffline(clock, c.st, c.hu)])),
                    TopN)
    /\ UNCHANGED <<currentIndex, guess, revealedAnswer, storeInserts,
                   store, inflight, console>>

Advance_KeepGuess(c) ==
    /\ IF torn THEN UNCHANGED <<currentIndex, revealedAnswer>>
       ELSE /\ currentIndex' = c.ci + 1
            /\ revealedAnswer' = NullStr
    /\ UNCHANGED <<guess, endTime, finished, interval, storeInserts,
                   store, inflight, console,
                   leaderboard>>

\* setCurrentIndex(currentIndex + 1); setGuess(""); setRevealedAnswer(null)
Advance(c) ==
    /\ IF torn THEN UNCHANGED <<currentIndex, guess, revealedAnswer>>
       ELSE /\ currentIndex' = c.ci + 1
            /\ guess' = <<>>
            /\ revealedAnswer' = NullStr
    /\ UNCHANGED <<endTime, finished, interval, storeInserts,
                   store, inflight, console, leaderboard>>

\* the advance-or-finish branch shared by a correct guess and the skip timer
AdvanceOrFinish(c) ==
    IF IsLast(dailyPhrases, c.ci)
    THEN IF variant = "cloud" THEN FinishCloud(c) ELSE FinishOffline(c)
    ELSE Advance(c)

----------------------------------------------------------------------------
(* Game screen: events *)

\* onChange of the guess input
SetGuess(g) ==
    /\ ev' = "setGuess"
    /\ GameScreen
    /\ guess' = g
    /\ UNCHANGED <<variant, pool, dailyPhrases, currentIndex, startTime,
                   endTime, finished, wrongGuess, leaderboard, name,
                   gameStarted, hintUsed, giveUp, now, revealedAnswer,
                   penaltyTime, skippedIndexes, clock, timers, interval, torn,
                   storeInserts, store, inflight, console>>

\* handleSubmit (the Submit button, or Enter in the guess input)
handleSubmit ==
    /\ ev' = "submit"
    /\ GameScreen
    /\ IF ~HasPhrase(dailyPhrases, currentIndex)
       THEN UNCHANGED <<currentIndex, guess, revealedAnswer, endTime, finished,
                        interval, storeInserts,
                        store, inflight, console, leaderboard, wrongGuess,
                        timers>>
       ELSE IF Matches(guess, AnswerAt(dailyPhrases, currentIndex))
       THEN /\ AdvanceOrFinish(Closure)
            /\ UNCHANGED <<wrongGuess, timers>>
       ELSE /\ CanSchedule(WrongGuessDelay)
            /\ wrongGuess' = TRUE
            /\ timers' = Append(timers, [kind |-> "wrong",
                                         due |-> clock + WrongGuessDelay])
            /\ UNCHANGED <<currentIndex, guess, revealedAnswer, endTime,
                           finished, interval, storeInserts,
                           store, inflight, console, leaderboard>>
    /\ UNCHANGED <<variant, pool, dailyPhrases, startTime, name, gameStarted,
                   hintUsed, giveUp, now, penaltyTime, skippedIndexes, clock,
                   torn>>

handleHint_NoGuard ==
    /\ ev' = "hint"
    /\ GameScreen
    /\ hintUsed' = TRUE
    /\ UNCHANGED <<variant, pool, dailyPhrases, currentIndex, guess, startTime,
                   endTime, finished, wrongGuess, leaderboard, name,
                   gameStarted, giveUp, now, revealedAnswer, penaltyTime,
                   skippedIndexes, clock, timers, interval, torn,
                   storeInserts, store, inflight, console>>

\* handleHint
handleHint ==
    /\ ev' = "hint"
    /\ GameScreen
    /\ hintUsed' = IF HasPhrase(dailyPhrases, currentIndex) THEN TRUE
                   ELSE hintUsed
    /\ UNCHANGED <<variant, pool, dailyPhrases, currentIndex, guess, startTime,
                   endTime, finished, wrongGuess, leaderboard, name,
                   gameStarted, giveUp, now, revealedAnswer, penaltyTime,
                   skippedIndexes, clock, timers, interval, torn,
                   storeInserts, store, inflight, console>>

\* handleSkip (cloud): the synchronous part, which schedules the callback
handleSkip ==
    /\ ev' = "skip"
    /\ variant = "cloud"
    /\ GameScreen
    /\ IF ~HasPhrase(dailyPhrases, currentIndex)
       THEN UNCHANGED <<penaltyTime, skippedIndexes, revealedAnswer, timers>>
       ELSE /\ CanSchedule(SkipDelay)
            /\ penaltyTime' = penaltyTime + SkipPenalty
            /\ skippedIndexes' = Append(skippedIndexes, currentIndex)
            /\ revealedAnswer' = AnswerAt(dailyPhrases, currentIndex)
            /\ timers' = Append(timers, [kind |-> "skip",
                                         due |-> clock + SkipDelay,
                                         c |-> Closure])
    /\ UNCHANGED <<variant, pool, dailyPhrases, currentIndex, guess, startTime,
                   endTime, finished, wrongGuess, leaderboard, name,
                   gameStarted, hintUsed, giveUp, now, clock, interval, torn,
                   storeInserts, store, inflight, console>>

handleGiveUp_NoFinish ==
    /\ ev' = "giveUp"
    /\ variant = "offline"
    /\ GameScreen
    /\ IF ~HasPhrase(dailyPhrases, currentIndex)
       THEN UNCHANGED <<revealedAnswer, giveUp, endTime>>
       ELSE /\ revealedAnswer' = AnswerAt(dailyPhrases, currentIndex)
            /\ giveUp' = TRUE
            /\ endTime' = clock
    /\ UNCHANGED <<variant, pool, dailyPhrases, currentIndex, guess, startTime,
                   wrongGuess, leaderboard, name, gameStarted, hintUsed, now,
                   penaltyTime, skippedIndexes, clock, timers, torn,
                   storeInserts, store, inflight, console, finished, interval>>

\* handleGiveUp (offline)
handleGiveUp ==
    /\ ev' = "giveUp"
    /\ variant = "offline"
    /\ GameScreen
    /\ IF ~HasPhrase(dailyPhrases, currentIndex)
       THEN UNCHANGED <<revealedAnswer, giveUp, endTime, finished, interval>>
       ELSE /\ revealedAnswer' = AnswerAt(dailyPhrases, currentIndex)
            /\ giveUp' = TRUE
            /\ endTime' = clock
            /\ finished' = TRUE
            /\ interval' = EffectInterval(gameStarted, TRUE)
    /\ UNCHANGED <<variant, pool, dailyPhrases, currentIndex, guess, startTime,
                   wrongGuess, leaderboard, name, gameStarted, hintUsed, now,
                   penaltyTime, skippedIndexes, clock, timers, torn,
                   storeInserts, store, inflight, console>>

----------------------------------------------------------------------------
(* Timers, the interval, the clock and the teardown *)

\* Timers run in the order of their due times, and in creation order among
\* equal due times, once the clock has reached the due time.
IsNextTimer(i) ==
    /\ timers[i].due <= clock
    /\ \A j \in DOMAIN timers :
          j # i => \/ timers[j].due > timers[i].due
                   \/ timers[j].due = timers[i].due /\ j > i

\* the callback of handleSkip's setTimeout
SkipTimer(i) ==
    /\ ev' = "skipTimer"
    /\ i \in DOMAIN timers
    /\ timers[i].kind = "skip"
    /\ IsNextTimer(i)
    /\ timers' = RemoveAt(timers, i)
    /\ AdvanceOrFinish(timers[i].c)
    /\ UNCHANGED <<variant, pool, dailyPhrases, startTime, wrongGuess, name,
                   gameStarted, hintUsed, giveUp, now, penaltyTime,
                   skippedIndexes, clock, torn>>

WrongGuessTimer_KeepSignal(i) ==
    /\ ev' = "wrongTimer"
    /\ i \in DOMAIN timers
    /\ timers[i].kind = "wrong"
    /\ IsNextTimer(i)
    /\ timers' = RemoveAt(timers, i)
    /\ UNCHANGED <<variant, pool, dailyPhrases, currentIndex, guess, startTime,
                   endTime, finished, leaderboard, name, gameStarted, hintUsed,
                   giveUp, now, revealedAnswer, penaltyTime, skippedIndexes,
                   clock, interval, torn, storeInserts, wrongGuess,
                   store, inflight, console>>

\* the callback of handleSubmit's setTimeout: setWrongGuess(false)
WrongGuessTimer(i) ==
    /\ ev' = "wrongTimer"
    /\ i \in DOMAIN timers
    /\ timers[i].kind = "wrong"
    /\ IsNextTimer(i)
    /\ timers' = RemoveAt(timers, i)
    /\ wrongGuess' = IF torn THEN wrongGuess ELSE FALSE
    /\ UNCHANGED <<variant, pool, dailyPhrases, currentIndex, guess, startTime,
                   endTime, finished, leaderboard, name, gameStarted, hintUsed,
                   giveUp, now, revealedAnswer, penaltyTime, skippedIndexes,
                   clock, interval, torn, storeInserts,
                   store, inflight, console>>

\* Time passes by one quantum while the interval is scheduled.  The
\* interval period (50 ms) divides the quantum, so its callback
\* setNow(Date.now()) runs at the new instant.
Tick ==
    /\ ev' = "tick"
    /\ interval
    /\ clock + Quantum <= MaxClock
    /\ clock' = clock + Quantum
    /\ now' = clock'
    /\ UNCHANGED <<variant, pool, dailyPhrases, currentIndex, guess, startTime,
                   endTime, finished, wrongGuess, leaderboard, name,
                   gameStarted, hintUsed, giveUp, revealedAnswer, penaltyTime,
                   skippedIndexes, timers, interval, torn, storeInserts,
                   store, inflight, console>>

\* Time passes by one quantum while no interval is scheduled.
AdvanceClock ==
    /\ ev' = "clock"
    /\ ~interval
    /\ clock + Quantum <= MaxClock
    /\ clock' = clock + Quantum
    /\ UNCHANGED <<variant, pool, dailyPhrases, currentIndex, guess, startTime,
                   endTime, finished, wrongGuess, leaderboard, name,
                   gameStarted, hintUsed, giveUp, now, revealedAnswer,
                   penaltyTime, skippedIndexes, timers, interval, torn,
                   storeInserts, store, inflight, console>>

\* The component is unmounted: the effect cleanup clears the interval.
\* Nothing clears the pending timeouts.
Teardown ==
    /\ ev' = "teardown"
    /\ ~torn
    /\ torn' = TRUE
    /\ interval' = FALSE
    /\ UNCHANGED <<variant, pool, dailyPhrases, currentIndex, guess, startTime,
                   endTime, finished, wrongGuess, leaderboard, name,
                   gameStarted, hintUsed, giveUp, now, revealedAnswer,
                   penaltyTime, skippedIndexes, clock, timers, storeInserts,
                   store, inflight, console>>

----------------------------------------------------------------------------

Next ==
    \/ \E n \in NameInputs : SetName(n)
    \/ StartClick
    \/ NameEnter
    \/ \E g \in GuessInputs : SetGuess(g)
    \/ handleSubmit
    \/ handleHint
    \/ handleSkip
    \/ handleGiveUp
    \/ \E i \in 1..MaxTimers : SkipTimer(i)
    \/ \E i \in 1..MaxTimers : WrongGuessTimer(i)
    \/ Tick
    \/ AdvanceClock
    \/ Teardown

Spec == Init /\ [][Next]_vars

\* The event loop runs a timeout callback once it is due, and time passes.
Fairness ==
    /\ WF_vars(Tick \/ AdvanceClock)
    /\ WF_vars(\E i \in 1..MaxTimers : SkipTimer(i))
    /\ WF_vars(\E i \in 1..MaxTimers : WrongGuessTimer(i))

FairSpec == Spec /\ Fairness

----------------------------------------------------------------------------
(* The day sampler on its own: App's first render on pools of pairwise     *)
(* distinct phrases, up to more than the five it picks                     *)

Letters == <<"a", "b", "c", "d", "e", "f", "g", "h">>

SamplerPool(n) == [i \in 1..n |-> Phrase(<<Letters[i]>>)]

SamplerPoolInputs == { SamplerPool(n) : n \in 0..MaxPool }

\* the module is loaded (import phrasePool), App has not rendered yet
InitSampler ==
    /\ variant = "cloud"
    /\ pool \in SamplerPoolInputs
    /\ dailyPhrases = <<>>
    /\ currentIndex = 0
    /\ guess = <<>>
    /\ startTime = 0
    /\ endTime = 0
    /\ finished = FALSE
    /\ wrongGuess = FALSE
    /\ leaderboard = InitialLeaderboard(variant)
    /\ name = <<>>
    /\ gameStarted = FALSE
    /\ hintUsed = FALSE
    /\ giveUp = FALSE
    /\ now = MountTime
    /\ revealedAnswer = NullStr
    /\ penaltyTime = 0
    /\ skippedIndexes = <<>>
    /\ clock = MountTime
    /\ timers = <<>>
    /\ interval = FALSE
    /\ torn = FALSE
    /\ storeInserts = <<>>
    /\ store = <<>>
    /\ inflight = <<>>
    /\ console = 0
    /\ ev = "load"

\* useState(getDailyPhrases(phrasePool)) of the first render; the sort
\* runs on the copy [...pool].  The leaderboard effect follows the render.
MountApp ==
    /\ ev = "load"
    /\ ev' = "mount"
    /\ dailyPhrases' \in getDailyPhrasesCloud(pool)
    /\ inflight' = InitialRequests(variant)
    /\ UNCHANGED <<variant, pool, currentIndex, guess, startTime, endTime,
                   finished, wrongGuess, leaderboard, name, gameStarted,
                   hintUsed, giveUp, now, revealedAnswer, penaltyTime,
                   skippedIndexes, clock, timers, interval, torn,
                   storeInserts, store, console>>

NextSampler == MountApp

SpecSampler == InitSampler /\ [][NextSampler]_vars

----------------------------------------------------------------------------
(* The leaderboard store (cloud variant): its replies to saveScore and to   *)
(* fetchLeaderboard, the INSERT notifications of the change subscription   *)
(* and the rows other players insert                                       *)

\* the postgres_changes message of one INSERT on the table
NotifyMsg(row) ==
    [kind |-> "notify", row |-> row, served |-> FALSE, data |-> <<>>]

\* the row another player inserts
OtherRow == [name |-> <<"o">>, time |-> Seconds(MillisPerSecond)]

\* .order("time", { ascending: true }).limit(10) on the table's rows
TopRows(rows) == Take(SortByTime(rows), TopN)

InsertReply_RefreshOnError(i, ok) ==
    /\ ev' = IF ok THEN "insertOk" ELSE "insertError"
    /\ i <= Len(inflight)
    /\ inflight[i].kind = "insert"
    /\ IF ok
       THEN /\ store' = Append(store, inflight[i].row)
            /\ inflight' = RemoveAt(inflight, i)
                             \o <<SelectReq(inflight[i].row),
                                  NotifyMsg(inflight[i].row)>>
            /\ UNCHANGED <<console, leaderboard>>
       ELSE /\ inflight' = RemoveAt(inflight, i)
            /\ console' = console + 1
            /\ leaderboard' = IF torn THEN leaderboard
                              ELSE TopRows(Append(store, inflight[i].row))
            /\ UNCHANGED store
    /\ UNCHANGED <<variant, pool, dailyPhrases, currentIndex, guess, startTime,
                   endTime, finished, wrongGuess, name, gameStarted,
                   hintUsed, giveUp, now, revealedAnswer, penaltyTime,
                   skippedIndexes, clock, timers, interval, torn,
                   storeInserts>>

\* saveScore after `await ...insert(...)`: the client resolves with
\* { error }.  if (error) console.error(...); else the table holds the row
\* and saveScore issues the select.
InsertReply(i, ok) ==
    /\ ev' = IF ok THEN "insertOk" ELSE "insertError"
    /\ i <= Len(inflight)
    /\ inflight[i].kind = "insert"
    /\ IF ok
       THEN /\ store' = Append(store, inflight[i].row)
            /\ inflight' = RemoveAt(inflight, i)
                             \o <<SelectReq(inflight[i].row),
                                  NotifyMsg(inflight[i].row)>>
            /\ UNCHANGED console
       ELSE /\ inflight' = RemoveAt(inflight, i)
            /\ console' = console + 1
            /\ UNCHANGED store
    /\ UNCHANGED <<variant, pool, dailyPhrases, currentIndex, guess, startTime,
                   endTime, finished, wrongGuess, leaderboard, name,
                   gameStarted, hintUsed, giveUp, now, revealedAnswer,
                   penaltyTime, skippedIndexes, clock, timers, interval, torn,
                   storeInserts>>

\* the store runs the select of saveScore
ServeSelect(i) ==
    /\ ev' = "serveSelect"
    /\ i <= Len(inflight)
    /\ inflight[i].kind = "select"
    /\ ~inflight[i].served
    /\ inflight' = [inflight EXCEPT ![i].served = TRUE,
                                    ![i].data = TopRows(store)]
    /\ UNCHANGED <<variant, pool, dailyPhrases, currentIndex, guess, startTime,
                   endTime, finished, wrongGuess, leaderboard, name,
                   gameStarted, hintUsed, giveUp, now, revealedAnswer,
                   penaltyTime, skippedIndexes, clock, timers, interval, torn,
                   storeInserts, store, console>>

\* saveScore after `await ...select(...)`:
\* if (!fetchError && data) setLeaderboard(data)
SelectReply(i, ok) ==
    /\ ev' = IF ok THEN "selectOk" ELSE "selectError"
    /\ i <= Len(inflight)
    /\ inflight[i].kind = "select"
    /\ inflight[i].served
    /\ inflight' = RemoveAt(inflight, i)
    /\ leaderboard' = IF ok /\ ~torn THEN inflight[i].data ELSE leaderboard
    /\ UNCHANGED <<variant, pool, dailyPhrases, currentIndex, guess, startTime,
                   endTime, finished, wrongGuess, name, gameStarted,
                   hintUsed, giveUp, now, revealedAnswer, penaltyTime,
                   skippedIndexes, clock, timers, interval, torn,
                   storeInserts, store, console>>

\* the store runs the select of fetchLeaderboard
ServeFetch(i) ==
    /\ ev' = "serveFetch"
    /\ i <= Len(inflight)
    /\ inflight[i].kind = "fetch"
    /\ ~inflight[i].served
    /\ inflight' = [inflight EXCEPT ![i].served = TRUE,
                                    ![i].data = TopRows(store)]
    /\ UNCHANGED <<variant, pool, dailyPhrases, currentIndex, guess, startTime,
                   endTime, finished, wrongGuess, leaderboard, name,
                   gameStarted, hintUsed, giveUp, now, revealedAnswer,
                   penaltyTime, skippedIndexes, clock, timers, interval, torn,
                   storeInserts, store, console>>

\* fetchLeaderboard after its await: if (!error && data) setLeaderboard(data)
FetchReply(i, ok) ==
    /\ ev' = IF ok THEN "fetchOk" ELSE "fetchError"
    /\ i <= Len(inflight)
    /\ inflight[i].kind = "fetch"
    /\ inflight[i].served
    /\ inflight' = RemoveAt(inflight, i)
    /\ leaderboard' = IF ok /\ ~torn THEN inflight[i].data ELSE leaderboard
    /\ UNCHANGED <<variant, pool, dailyPhrases, currentIndex, guess, startTime,
                   endTime, finished, wrongGuess, name, gameStarted,
                   hintUsed, giveUp, now, revealedAnswer, penaltyTime,
                   skippedIndexes, clock, timers, interval, torn,
                   storeInserts, store, console>>

\* the subscription's callback: console.log(...); fetchLeaderboard().  The
\* channel is removed at the unmount.
Notify(i) ==
    /\ ev' = "notify"
    /\ ~torn
    /\ i <= Len(inflight)
    /\ inflight[i].kind = "notify"
    /\ inflight' = Append(RemoveAt(inflight, i), FetchReq)
    /\ UNCHANGED <<variant, pool, dailyPhrases, currentIndex, guess, startTime,
                   endTime, finished, wrongGuess, leaderboard, name,
                   gameStarted, hintUsed, giveUp, now, revealedAnswer,
                   penaltyTime, skippedIndexes, clock, timers, interval, torn,
                   storeInserts, store, console>>

\* a notification that never reaches the client
NotifyLost(i) ==
    /\ ev' = "notifyLost"
    /\ i <= Len(inflight)
    /\ inflight[i].kind = "notify"
    /\ inflight' = RemoveAt(inflight, i)
    /\ UNCHANGED <<variant, pool, dailyPhrases, currentIndex, guess, startTime,
                   endTime, finished, wrongGuess, leaderboard, name,
                   gameStarted, hintUsed, giveUp, now, revealedAnswer,
                   penaltyTime, skippedIndexes, clock, timers, interval, torn,
                   storeInserts, store, console>>

\* another player's score is inserted into the table
OtherInsert ==
    /\ ev' = "otherInsert"
    /\ Cardinality({ k \in 1..Len(store) : store[k] = OtherRow })
         < MaxOtherInserts
    /\ store' = Append(store, OtherRow)
    /\ inflight' = Append(inflight, NotifyMsg(OtherRow))
    /\ UNCHANGED <<variant, pool, dailyPhrases, currentIndex, guess, startTime,
                   endTime, finished, wrongGuess, leaderboard, name,
                   gameStarted, hintUsed, giveUp, now, revealedAnswer,
                   penaltyTime, skippedIndexes, clock, timers, interval, torn,
                   storeInserts, console>>

\* a cloud session on a pool of one or two phrases; the sessions run
\* against the store finish by a correct guess (no skip)
InitStore ==
    /\ Init
    /\ variant = "cloud"
    /\ Len(pool) \in {1, 2}

NextStore ==
    \/ \E n \in NameInputs : SetName(n)
    \/ StartClick
    \/ NameEnter
    \/ \E g \in GuessInputs : SetGuess(g)
    \/ handleSubmit
    \/ handleHint
    \/ \E i \in 1..MaxTimers : WrongGuessTimer(i)
    \/ Tick
    \/ AdvanceClock
    \/ Teardown
    \/ \E i \in 1..Len(inflight), ok \in BOOLEAN : InsertReply(i, ok)
    \/ \E i \in 1..Len(inflight) : ServeSelect(i)
    \/ \E i \in 1..Len(inflight), ok \in BOOLEAN : SelectReply(i, ok)

\* the store answers saveScore; fetchLeaderboard is not answered and no
\* notification arrives
SpecStore == InitStore /\ [][NextStore]_vars

NextView ==
    \/ NextStore
    \/ \E i \in 1..Len(inflight) : ServeFetch(i)
    \/ \E i \in 1..Len(inflight), ok \in BOOLEAN : FetchReply(i, ok)
    \/ \E i \in 1..Len(inflight) : Notify(i)
    \/ \E i \in 1..Len(inflight) : NotifyLost(i)
    \/ OtherInsert

\* the store answers every request, in any order, and other players insert
SpecView == InitStore /\ [][NextView]_vars

----------------------------------------------------------------------------
(* What the Game Over screen shows *)

\* Number.prototype.toFixed(1): the tenths nearest to the value, the larger
\* of two equally near
ToFixed1(sec) == (sec[1] * 10 * 2 + sec[2]) \div (2 * sec[2])

\* cloud: the elapsed time of the header, computed at every render
elapsed ==
    IF startTime # 0 /\ ~finished
    THEN Seconds(now - startTime + penaltyTime)
    ELSE IF endTime # 0
    THEN Seconds(endTime - startTime + penaltyTime)
    ELSE Seconds(0)

\* cloud: (endTime - startTime + penaltyTime) / 1000
GameOverTotal == Seconds(endTime - startTime + penaltyTime)

----------------------------------------------------------------------------
(* Properties *)

\* every variable but ev
state == <<variant, pool, dailyPhrases, currentIndex, guess, startTime,
           endTime, finished, wrongGuess, leaderboard, name, gameStarted,
           hintUsed, giveUp, now, revealedAnswer, penaltyTime, skippedIndexes,
           clock, timers, interval, torn, storeInserts, store, inflight,
           console>>

\* normalize = trim + lowercase
Normalize(s) == ToLowerCase(Trim(s))

\* C1: in the cloud variant every row handed to the leaderboard store by a
\* finish transition has time (finishedAt - startedAt + penaltyMillis +
\* (hintUsed ? 5000 : 0)) / 1000, with penaltyMillis and hintUsed as they
\* are in the session when the transition happens.
C1_TotalAtFinish ==
    [][(variant = "cloud" /\ ~torn
          /\ Len(storeInserts') = Len(storeInserts) + 1)
       => storeInserts'[Len(storeInserts')].time
            = Seconds(endTime' - startTime + penaltyTime
                        + (IF hintUsed THEN HintPenalty ELSE 0))]_vars

\* C2: in the cloud variant a session hands at most one row to the
\* leaderboard store, and exactly one once it is finished.
C2_OneInsert ==
    (variant = "cloud" /\ ~torn)
    => /\ Len(storeInserts) <= 1
       /\ finished => Len(storeInserts) = 1

\* C3: in the cloud variant startTime and endTime, once set, never change;
\* startTime is set when the session finishes, and endTime >= startTime.
C3_TimestampsSetOnce ==
    [][variant = "cloud"
       => /\ startTime # 0 => startTime' = startTime
          /\ endTime # 0 => endTime' = endTime
          /\ finished' => startTime' # 0
          /\ endTime' # 0 => endTime' >= startTime']_vars

\* C4: in the cloud variant no event changes finished, currentIndex,
\* penaltyTime, skippedIndexes or guess once the session is finished.
C4_FinishedTerminal ==
    [][(variant = "cloud" /\ finished)
       => UNCHANGED <<finished, currentIndex, penaltyTime, skippedIndexes,
                      guess>>]_vars

\* C5: in both variants, once the session is finished (or has given up) or
\* the component is torn down, the interval is no longer scheduled and no
\* tick is delivered.
C5_NoTickWhenTerminal ==
    /\ []((finished \/ torn) => ~interval)
    /\ [][(finished \/ torn) => ev' # "tick"]_vars

C5_Witness ==
    /\ finished /\ ~torn
    /\ clock > endTime
    /\ ev = "clock"

\* C6: in the cloud variant, after the teardown no event (in particular no
\* pending skip timer) changes the session state or hands a row to the
\* leaderboard store.
C6_TeardownDiscardsTimer ==
    [][(variant = "cloud" /\ torn) => UNCHANGED <<session, storeInserts>>]_vars

\* C7: in the cloud variant skip() on a current phrase adds exactly 10000 to
\* penaltyTime, appends currentIndex to skippedIndexes, reveals the answer
\* and keeps currentIndex; the timer it schedules performs the transition
\* of a correct guess made when it fires: not on the last phrase it
\* advances currentIndex by one and clears guess and revealedAnswer, on the
\* last phrase it finishes the session as a correct guess would.
C7_SkipThenDeferredTransition ==
    [][variant = "cloud" /\ ~torn
       => /\ (ev' = "skip" /\ HasPhrase(dailyPhrases, currentIndex))
             => /\ penaltyTime' = penaltyTime + SkipPenalty
                /\ skippedIndexes' = Append(skippedIndexes, currentIndex)
                /\ revealedAnswer' = AnswerAt(dailyPhrases, currentIndex)
                /\ currentIndex' = currentIndex
          /\ ev' = "skipTimer"
             => IF IsLast(dailyPhrases, currentIndex)
                THEN /\ finished'
                     /\ endTime' = clock
                     /\ storeInserts' =
                          Append(storeInserts,
                                 [name |-> NameOrYou(name),
                                  time |-> TotalTimeCloud(clock, startTime,
                                                          penaltyTime,
                                                          hintUsed)])
                ELSE /\ currentIndex' = currentIndex + 1
                     /\ guess' = <<>>
                     /\ revealedAnswer' = NullStr]_vars

\* C8: in both variants submitGuess accepts the guess (advances or
\* finishes) exactly when normalize(guess) = normalize(answer), normalize
\* being trim + lowercase applied to both sides.
C8_MatchIsNormalizedEquality ==
    [][(ev' = "submit" /\ HasPhrase(dailyPhrases, currentIndex))
       => ((currentIndex' = currentIndex + 1 \/ finished')
             <=> Normalize(guess)
                   = Normalize(AnswerAt(dailyPhrases, currentIndex)))]_vars

\* C9: in both variants, with an empty pool the daily selection is empty,
\* no action changes the session (submit, hint and skip/give up are
\* no-ops), the session never finishes or gives up and nothing is handed
\* to the leaderboard.
C9_EmptyPoolNothingToPlay ==
    pool = <<>>
    => /\ dailyPhrases = <<>>
       /\ currentIndex = 0
       /\ ~finished /\ ~giveUp /\ endTime = 0
       /\ ~hintUsed /\ ~wrongGuess
       /\ penaltyTime = 0 /\ skippedIndexes = <<>>
       /\ revealedAnswer = NullStr
       /\ timers = <<>>
       /\ storeInserts = <<>>
       /\ variant = "offline" => leaderboard = InitialLeaderboard(variant)

C9_Witness ==
    /\ pool = <<>>
    /\ gameStarted
    /\ guess # <<>>
    /\ ev = "submit"

\* C10: in both variants the session starts only with a name that is not
\* empty after trimming; a Start click or Enter with an empty or
\* whitespace-only name changes nothing, and before the start startTime
\* is unset and no interval is scheduled.
C10_BlankNameBlocksStart ==
    /\ [](gameStarted => Trim(name) # <<>>)
    /\ [](~gameStarted => startTime = 0 /\ ~interval)
    /\ [][(ev' \in {"startClick", "nameEnter"} /\ Trim(name) = <<>>)
          => UNCHANGED state]_vars

C10_Witness ==
    /\ ev \in {"startClick", "nameEnter"}
    /\ name # <<>>
    /\ Trim(name) = <<>>
    /\ ~gameStarted

\* C11: in the cloud variant a hint call leaves currentIndex, penaltyTime,
\* skippedIndexes, guess and finished unchanged, and once the session has
\* used a hint (one call or many, at any point before the finish) the
\* total handed to the store holds exactly 5000 ms for it on top of the
\* elapsed time and the skip penalties (multiples of 10000 ms).
C11_HintIdempotent ==
    [][(variant = "cloud" /\ ~torn)
       => /\ ev' = "hint"
             => UNCHANGED <<currentIndex, penaltyTime, skippedIndexes, guess,
                            finished>>
          /\ (Len(storeInserts') = Len(storeInserts) + 1 /\ hintUsed)
             => (storeInserts'[Len(storeInserts')].time[1]
                   - (clock - startTime)) % SkipPenalty = HintPenalty]_vars

\* C14: in the cloud variant currentIndex stays within 0..len(phrases), and
\* a correct guess on a phrase that is not the last moves currentIndex to
\* exactly the next index and clears guess and revealedAnswer, changing
\* nothing else of the session.
C14_IndexInRangeAndAdvance ==
    /\ [](variant = "cloud"
          => currentIndex >= 0 /\ currentIndex <= Len(dailyPhrases))
    /\ [][(/\ variant = "cloud"
           /\ ev' = "submit"
           /\ HasPhrase(dailyPhrases, currentIndex)
           /\ Matches(guess, AnswerAt(dailyPhrases, currentIndex))
           /\ ~IsLast(dailyPhrases, currentIndex))
          => /\ currentIndex' = currentIndex + 1
             /\ guess' = <<>>
             /\ revealedAnswer' = NullStr
             /\ UNCHANGED <<penaltyTime, hintUsed, skippedIndexes, finished,
                            startTime, endTime, wrongGuess, leaderboard, name,
                            gameStarted, storeInserts, timers>>]_vars

C14_Witness ==
    /\ variant = "cloud"
    /\ ev = "submit"
    /\ currentIndex = 1
    /\ guess = <<>> /\ ~wrongGuess /\ timers = <<>>
    /\ penaltyTime = 0
    /\ ~finished

\* C16: in the offline variant giveUp() on a current phrase reveals the
\* answer and finishes the session at once with endTime = now, keeping
\* currentIndex; a session that gave up adds nothing to the leaderboard
\* and nothing changes its state afterwards.
C16_GiveUpTerminal ==
    /\ [][(variant = "offline" /\ ev' = "giveUp"
             /\ HasPhrase(dailyPhrases, currentIndex))
          => /\ revealedAnswer' = AnswerAt(dailyPhrases, currentIndex)
             /\ giveUp' /\ finished'
             /\ endTime' = clock
             /\ currentIndex' = currentIndex
             /\ leaderboard' = leaderboard]_vars
    /\ [](giveUp => /\ finished
                    /\ leaderboard = InitialLeaderboard(variant)
                    /\ storeInserts = <<>>)
    /\ [][giveUp
          => UNCHANGED <<currentIndex, guess, startTime, endTime, finished,
                         giveUp, hintUsed, revealedAnswer, leaderboard, name,
                         gameStarted, penaltyTime, skippedIndexes,
                         storeInserts>>]_vars

C16_Witness ==
    /\ giveUp /\ ~torn
    /\ currentIndex = 1
    /\ clock > endTime

\* the entries of lb are in ascending order of time
Ascending(lb) ==
    \A i \in 1..(Len(lb) - 1) : ~TimeLess(lb[i + 1].time, lb[i].time)

\* C17: in the offline variant the leaderboard is always in ascending order
\* of time and holds at most 10 entries; after a finish it holds the new
\* entry exactly when fewer than 10 of the previous entries are at least
\* as fast.
C17_LocalTopTen ==
    /\ [](variant = "offline"
          => Ascending(leaderboard) /\ Len(leaderboard) <= TopN)
    /\ [][(variant = "offline" /\ ~finished /\ finished' /\ ~giveUp')
          => LET e == [name |-> NameOrYou(name),
                       time |-> TotalTimeOffline(clock, startTime, hintUsed)]
                 faster == { i \in 1..Len(leaderboard) :
                               ~TimeLess(e.time, leaderboard[i].time) }
             IN  (\E i \in 1..Len(leaderboard') : leaderboard'[i] = e)
                   <=> Cardinality(faster) < TopN]_vars

C17_Witness ==
    /\ variant = "offline"
    /\ finished /\ ~giveUp
    /\ Len(leaderboard) = 3
    /\ leaderboard[1].name = NameOrYou(name)

\* C18: in the cloud variant no step decreases currentIndex.
C18_IndexNeverDecreases ==
    [][variant = "cloud" => currentIndex' >= currentIndex]_vars

\* C19: in the cloud variant the total the Game Over screen shows equals
\* the total the session handed to the leaderboard store.
C19_ShownTotalIsSubmittedTotal ==
    (variant = "cloud" /\ finished /\ ~torn)
    => \A i \in 1..Len(storeInserts) :
          ToFixed1(GameOverTotal) = ToFixed1(storeInserts[i].time)

\* C20: in the cloud variant skippedIndexes holds no index twice and
\* penaltyTime is 10000 times the number of distinct phrases skipped.
C20_OnePenaltyPerPhrase ==
    variant = "cloud"
    => /\ \A i, j \in 1..Len(skippedIndexes) :
             skippedIndexes[i] = skippedIndexes[j] => i = j
       /\ penaltyTime
            = SkipPenalty
                * Cardinality({ skippedIndexes[i] :
                                  i \in 1..Len(skippedIndexes) })

\* C12: in the cloud variant, when the insert of a finished session fails,
\* the session is and stays Finished with endTime set and with the total it
\* computed before the outcome was known; the failure is logged and the
\* step changes neither the leaderboard view nor anything else of the
\* session, and no request is left behind.
C12_InsertFailureIsNonFatal ==
    [][(ev' = "insertError" /\ ~torn)
       => /\ \E i \in 1..Len(inflight) :
               /\ inflight[i].kind = "insert"
               /\ inflight' = RemoveAt(inflight, i)
               /\ \E j \in 1..Len(storeInserts) :
                     storeInserts[j] = inflight[i].row
          /\ finished /\ finished'
          /\ endTime' = endTime /\ endTime >= startTime /\ startTime > 0
          /\ UNCHANGED <<session, storeInserts, store>>
          /\ console' = console + 1]_vars

C12_Witness ==
    /\ ev = "insertError"
    /\ ~torn /\ finished
    /\ console = 1
    /\ \A i \in 1..Len(inflight) : inflight[i].kind = "fetch"
    /\ store = <<>>
    /\ leaderboard = <<>>
    /\ Len(storeInserts) = 1

\* C13: in the cloud variant, on a pool of pairwise distinct phrases (any
\* date: any order the seeded shuffle can produce), getDailyPhrases returns
\* exactly min(5, pool length) phrases, each taken from the pool and none
\* twice, and leaves the pool as it was.
C13_SamplePicksDistinctFromPool ==
    /\ [](ev = "mount"
          => /\ Len(dailyPhrases) = (IF Len(pool) < 5 THEN Len(pool) ELSE 5)
             /\ \A i \in 1..Len(dailyPhrases) :
                   \E j \in 1..Len(pool) : dailyPhrases[i] = pool[j]
             /\ \A i, j \in 1..Len(dailyPhrases) :
                   dailyPhrases[i] = dailyPhrases[j] => i = j)
    /\ [][pool' = pool]_vars

C13_Witness ==
    /\ ev = "mount"
    /\ Len(pool) = 6
    /\ Len(dailyPhrases) = 5
    /\ dailyPhrases[1] = pool[6]

\* C15: in both variants a non-matching submit sets the wrong-guess signal
\* and changes nothing else of the session (index, guess, penalties, hint,
\* skips, revealed answer, outcome, timestamps, leaderboard); while the
\* component is mounted a raised signal is always eventually cleared, also
\* when several wrong guesses are pending at once.
C15_WrongGuessSignal ==
    /\ [][(/\ ev' = "submit"
           /\ HasPhrase(dailyPhrases, currentIndex)
           /\ ~Matches(guess, AnswerAt(dailyPhrases, currentIndex)))
          => /\ wrongGuess'
             /\ UNCHANGED <<currentIndex, guess, penaltyTime, hintUsed,
                            skippedIndexes, revealedAnswer, finished, giveUp,
                            startTime, endTime, leaderboard, name,
                            gameStarted, storeInserts>>]_vars
    /\ (wrongGuess /\ ~torn) ~> (~wrongGuess \/ torn)

\* a signal cleared while a later wrong guess is still pending
C15_Witness ==
    /\ ev = "wrongTimer"
    /\ ~wrongGuess /\ ~torn
    /\ Len(timers) = 1 /\ timers[1].kind = "wrong"

\* C21: in the cloud variant the elapsed time derived for display is never
\* negative: while the session is in progress now - startTime + penaltyTime
\* >= 0 (the displayed now is never older than startTime), and once it is
\* finished endTime - startTime + penaltyTime >= 0.
C21_ElapsedNeverNegative ==
    variant = "cloud"
    => /\ elapsed[1] >= 0
       /\ (gameStarted /\ ~finished)
          => now - startTime + penaltyTime >= 0
       /\ finished => endTime - startTime + penaltyTime >= 0

\* C22: in the cloud variant, when a fetch of the leaderboard completes
\* and leaves no request and no notification in flight, the displayed list
\* is the table's current top 10 in ascending order of time, whatever the
\* order in which the replies arrived and whether or not a notification
\* was missed.
C22_ViewNeverStale ==
    [][(/\ variant = "cloud" /\ ~torn
        /\ ev' \in {"fetchOk", "selectOk"}
        /\ inflight' = <<>>)
       => leaderboard' = TopRows(store')]_vars

====
